---- MODULE Spec2Model ----
(***************************************************************************)
(* A model of the BigInt class of src/main.cpp: an unsigned decimal        *)
(* integer kept as a std::string of digit VALUES, least significant first. *)
(*                                                                         *)
(* A digit sequence is a TLA+ sequence of integers, index 1 being the      *)
(* least significant digit (digits[0] of the code).  A text is a sequence  *)
(* of character codes.  Every element stored into `digits` goes through    *)
(* the int -> char conversion of the build (ToChar); whether plain char is *)
(* signed is the build's choice and is the variable charSigned.            *)
(***************************************************************************)
EXTENDS Integers, Sequences, FiniteSets, TLC

VARIABLES
    charSigned, \* TRUE: plain char is signed (-128..127), FALSE: 0..255
    a,          \* digits of the receiver / left operand; <<>>: not constructed
    b,          \* digits of the argument / right operand; <<>>: not constructed
    src,        \* the text `a` was constructed from, NoText otherwise
    nops,       \* number of compound assignments applied to a so far
    pc,         \* "run": operations may be applied, "done": a result was observed
    op,         \* name of the last operation
    err,        \* exception the last operation ended with, "none" otherwise
    a0,         \* digits of a before the last operation
    out         \* what the last operation returned or computed on the way

vars == <<charSigned, a, b, src, nops, pc, op, err, a0, out>>

-----------------------------------------------------------------------------
(* Bounds of the model.                                                    *)

\* native unsigned arguments of BigInt(unsigned long long) are 0..MaxNative
MaxNative == 12
\* at most MaxOps compound assignments are applied to one object
MaxOps == 2
\* a loop of the code that has not ended after LoopFuel rounds is cut off
LoopFuel == 60
\* pow is followed for at most MaxPowIter multiplications
MaxPowIter == 10
\* pow and sqrt are evaluated on objects of at most MaxArgLen digits
MaxArgLen == 3

(* Character codes.                                                        *)
ZeroChar == 48
MinusChar == 45
LetterA == ZeroChar + 49

\* marks "a was not built from a text" (a NUL character, in no input text)
NoText == <<0>>

\* the texts handed to BigInt(const string&)
Texts ==
    { <<>>,                                   \* ""
      <<ZeroChar>>,                           \* "0"
      <<ZeroChar, ZeroChar, ZeroChar>>,       \* "000"
      <<ZeroChar + 7>>,                       \* "7"
      <<ZeroChar + 1, ZeroChar + 9>>,         \* "19"
      <<ZeroChar, ZeroChar + 4, ZeroChar + 8>>,              \* "048"
      <<ZeroChar + 1, ZeroChar, ZeroChar>>,   \* "100"
      <<ZeroChar + 1, ZeroChar, ZeroChar + 1>>,              \* "101"
      <<ZeroChar + 9, ZeroChar + 9, ZeroChar + 9>>,          \* "999"
      <<ZeroChar + 1, ZeroChar + 2, LetterA, ZeroChar + 3>>  \* "12a3"
    }

-----------------------------------------------------------------------------
(* Evaluation idiom: With(e, LAMBDA v : F(v)) is F(e) with e evaluated     *)
(* once and v standing for its value (a C++ local variable).               *)

With(e, F(_)) == CHOOSE r \in { F(v) : v \in {e} } : TRUE

-----------------------------------------------------------------------------
(* C++ integer arithmetic.                                                 *)

\* int / int truncates toward zero
CDiv(x, y) == IF x >= 0 THEN x \div y ELSE -((-x) \div y)

\* int % int has the sign of the dividend
CMod(x, y) == x - y * CDiv(x, y)

\* conversion of an int to the char stored in `digits`
ToChar(x) == IF charSigned THEN ((x + 128) % 256) - 128 ELSE x % 256

-----------------------------------------------------------------------------
(* Helpers of the class.                                                   *)

\* bool is_zero() const
is_zero(d) == Len(d) = 1 /\ d[1] = 0

\* void remove_leading_zeros(): while (size > 1 && back() == 0) pop_back();
\* what is left ends at the highest position above the first that holds a
\* non-zero element, or is the first element alone
remove_leading_zeros(d) ==
    IF Len(d) <= 1 THEN d
    ELSE LET keep == {1} \cup {i \in 2..Len(d) : \E k \in i..Len(d) : d[k] # 0}
         IN SubSeq(d, 1, Cardinality(keep))

\* friend bool operator<(a, b): lengths first, then digits from the top
RECURSIVE LessFrom(_, _, _)
LessFrom(x, y, i) ==
    IF i < 1 THEN FALSE
    ELSE IF x[i] # y[i] THEN x[i] < y[i]
    ELSE LessFrom(x, y, i - 1)

Less(x, y) ==
    IF Len(x) # Len(y) THEN Len(x) < Len(y) ELSE LessFrom(x, y, Len(x))

\* operator== is equality of the two strings
Equal(x, y) == x = y
Greater(x, y) == Less(y, x)
LessEq(x, y) == ~Greater(x, y)
GreaterEq(x, y) == ~Less(x, y)

-----------------------------------------------------------------------------
(* Construction.                                                           *)

\* BigInt(unsigned long long n): do { push n % 10; n /= 10 } while (n > 0)
RECURSIVE FromNative(_)
FromNative(n) ==
    IF n \div 10 > 0 THEN <<ToChar(n % 10)>> \o FromNative(n \div 10)
    ELSE <<ToChar(n % 10)>>

\* s.find_first_not_of('0') from position i (1-based); 0 stands for npos
RECURSIVE find_first_not_of(_, _, _)
find_first_not_of(s, c, i) ==
    IF i > Len(s) THEN 0
    ELSE IF s[i] # c THEN i
    ELSE find_first_not_of(s, c, i + 1)

\* isdigit
isdigit(c) == ZeroChar <= c /\ c <= ZeroChar + 9

\* BigInt(const string& s).  The all-zero branch assigns the string literal
\* "0", whose one element is the character '0', not the digit value 0.
FromString(s) ==
    LET first_non_zero == find_first_not_of(s, ZeroChar, 1) IN
    IF first_non_zero = 0
    THEN [err |-> "none", val |-> <<ZeroChar>>]
    ELSE LET valid_part == SubSeq(s, first_non_zero, Len(s))
             n == Len(valid_part)
         IN IF \E i \in 1..n : ~isdigit(valid_part[i])
            THEN [err |-> "InvalidFormat", val |-> <<>>]
            ELSE [err |-> "none",
                  val |-> [i \in 1..n |-> ToChar(valid_part[n + 1 - i] - ZeroChar)]]

-----------------------------------------------------------------------------
(* Output.                                                                 *)

\* decimal text of a non-negative int
RECURSIVE NatText(_)
NatText(n) ==
    IF n < 10 THEN <<ZeroChar + n>>
    ELSE NatText(n \div 10) \o <<ZeroChar + (n % 10)>>

\* os << (int) c
IntText(n) == IF n < 0 THEN <<MinusChar>> \o NatText(-n) ELSE NatText(n)

\* operator<<: the elements from position i (1-based) down to the first,
\* each printed as an int
RECURSIVE RenderFrom(_, _)
RenderFrom(d, i) ==
    IF i < 1 THEN <<>> ELSE IntText(d[i]) \o RenderFrom(d, i - 1)

Render(d) == RenderFrom(d, Len(d))

-----------------------------------------------------------------------------
(* operator+=                                                              *)

\* the body of the loop at position i: the new digits and the new carry
AddStep(d, o, i, carry) ==
    LET d1 == IF i = Len(d) THEN Append(d, 0) ELSE d
        other_digit == IF i < Len(o) THEN o[i + 1] ELSE 0
        sum == d1[i + 1] + other_digit + carry
    IN [d |-> [d1 EXCEPT ![i + 1] = ToChar(CMod(sum, 10))],
        carry |-> CDiv(sum, 10)]

\* for (i = 0; i < max_len || carry; i++) { ... }
RECURSIVE AddLoop(_, _, _, _, _)
AddLoop(d, o, i, carry, max_len) ==
    IF ~(i < max_len \/ carry # 0) THEN d
    ELSE With(AddStep(d, o, i, carry),
              LAMBDA n : AddLoop(n.d, o, i + 1, n.carry, max_len))

\* BigInt& operator+=(const BigInt& other): never throws, never normalizes
AddAssign(x, y) ==
    AddLoop(x, y, 0, 0, IF Len(x) >= Len(y) THEN Len(x) ELSE Len(y))

-----------------------------------------------------------------------------
(* operator-=                                                              *)

\* the body of the loop at position i: the new digits and the new borrow
SubStep(d, o, i, borrow) ==
    LET other_digit == IF i < Len(o) THEN o[i + 1] ELSE 0
        diff == d[i + 1] - borrow - other_digit
    IN IF diff < 0
       THEN [d |-> [d EXCEPT ![i + 1] = ToChar(diff + 10)], borrow |-> 1]
       ELSE [d |-> [d EXCEPT ![i + 1] = ToChar(diff)], borrow |-> 0]

\* for (i = 0; i < digits.size(); i++) { ... }
RECURSIVE SubLoop(_, _, _, _)
SubLoop(d, o, i, borrow) ==
    IF i >= Len(d) THEN d
    ELSE With(SubStep(d, o, i, borrow),
              LAMBDA n : SubLoop(n.d, o, i + 1, n.borrow))

\* a faulty guard that compares the lengths only
SubGuardLengthsOnly(x, y) == Len(x) < Len(y)

\* the guard of operator-=: if (*this < other) throw underflow_error
SubGuard(x, y) == Less(x, y)

\* BigInt& operator-=(const BigInt& other)
SubAssign(x, y) ==
    IF SubGuard(x, y)
    THEN [err |-> "Underflow", val |-> x]
    ELSE With(SubLoop(x, y, 0, 0),
              LAMBDA d : [err |-> "none", val |-> remove_leading_zeros(d)])

-----------------------------------------------------------------------------
(* operator*=                                                              *)

\* a faulty body that reduces modulo 10 before it extracts the carry
MulStepLateCarry(r, x, y, i, j) ==
    LET r1 == [r EXCEPT ![i + j + 1] = CMod(@ + x[i + 1] * y[j + 1], 10)]
    IN [r1 EXCEPT ![i + j + 2] = @ + CDiv(r1[i + j + 1], 10)]

\* the body of the inner loop: accumulate, carry into the next position,
\* reduce modulo 10
MulStep(r, x, y, i, j) ==
    LET r1 == [r EXCEPT ![i + j + 1] = @ + x[i + 1] * y[j + 1]]
        r2 == [r1 EXCEPT ![i + j + 2] = @ + CDiv(r1[i + j + 1], 10)]
    IN [r2 EXCEPT ![i + j + 1] = CMod(@, 10)]

\* for (j = 0; j < other.digits.size(); j++) { ... } for one i
RECURSIVE MulRow(_, _, _, _, _)
MulRow(r, x, y, i, j) ==
    IF j >= Len(y) THEN r
    ELSE With(MulStep(r, x, y, i, j), LAMBDA r1 : MulRow(r1, x, y, i, j + 1))

\* for (i = 0; i < digits.size(); i++) { ... } over vector<int> result
RECURSIVE MulLoop(_, _, _, _)
MulLoop(r, x, y, i) ==
    IF i >= Len(x) THEN r
    ELSE With(MulRow(r, x, y, i, 0), LAMBDA r1 : MulLoop(r1, x, y, i + 1))

\* the result buffer after the two loops (empty on the zero shortcut)
MulBuffer(x, y) ==
    IF is_zero(x) \/ is_zero(y) THEN <<>>
    ELSE MulLoop([k \in 1..(Len(x) + Len(y)) |-> 0], x, y, 0)

\* the digits the buffer is copied to: digits.push_back(num) for each num
MulStore(r) == remove_leading_zeros([k \in 1..Len(r) |-> ToChar(r[k])])

\* BigInt& operator*=(const BigInt& other): never throws
MulAssign(x, y) ==
    IF is_zero(x) \/ is_zero(y) THEN FromNative(0)
    ELSE With(MulBuffer(x, y), LAMBDA r : MulStore(r))

-----------------------------------------------------------------------------
(* operator/=                                                              *)

\* The loop  while (current_dividend >= divisor) { current_dividend -=
\* divisor; count++; }  over the record w of its variables.  The inner
\* operator-= is the guarded one; underflow records whether it threw.
SubWhileDone(w, divisor) == w.underflow \/ ~GreaterEq(w.cur, divisor)

SubWhileBody(w, divisor) ==
    With(SubAssign(w.cur, divisor),
         LAMBDA s : IF s.err # "none" THEN [w EXCEPT !.underflow = TRUE]
                    ELSE [cur |-> s.val, count |-> w.count + 1,
                          underflow |-> FALSE])

\* at most n rounds of the loop (split in halves to keep the nesting flat)
RECURSIVE SubWhileRun(_, _, _)
SubWhileRun(w, divisor, n) ==
    IF n = 0 \/ SubWhileDone(w, divisor) THEN w
    ELSE IF n = 1 THEN SubWhileBody(w, divisor)
    ELSE With(SubWhileRun(w, divisor, n \div 2),
              LAMBDA h : SubWhileRun(h, divisor, n - (n \div 2)))

\* ok is FALSE when the loop was cut off after `fuel` rounds
SubWhile(cur, divisor, fuel) ==
    With(SubWhileRun([cur |-> cur, count |-> 0, underflow |-> FALSE],
                     divisor, fuel),
         LAMBDA w : [cur |-> w.cur, count |-> w.count,
                     underflow |-> w.underflow,
                     ok |-> SubWhileDone(w, divisor)])

\* current_dividend.digits.insert(begin(), digit); remove_leading_zeros();
Prepend(cur, digit) == remove_leading_zeros(<<digit>> \o cur)

\* one round of for (i = digits.size()-1; i >= 0; i--): the digit is put in
\* front of the running remainder, which is normalized and then reduced
DivStep(cur, digit, divisor) ==
    With(Prepend(cur, digit),
         LAMBDA pre :
           With(SubWhile(pre, divisor, LoopFuel),
                LAMBDA w : [pre |-> pre, post |-> w.cur, count |-> w.count,
                            ok |-> w.ok, underflow |-> w.underflow]))

\* the rounds from position i (0-based) down to 0; quotient.digits grows by
\* push_back(count), the steps are kept for inspection
RECURSIVE DivLoop(_, _, _, _, _, _)
DivLoop(d, divisor, i, cur, quot, steps) ==
    IF i < 0 THEN [quot |-> quot, cur |-> cur, steps |-> steps, ok |-> TRUE]
    ELSE With(DivStep(cur, d[i + 1], divisor),
              LAMBDA st :
                IF ~st.ok \/ st.underflow
                THEN [quot |-> quot, cur |-> st.post,
                      steps |-> Append(steps, st), ok |-> FALSE]
                ELSE With([q |-> Append(quot, ToChar(st.count)),
                           s |-> Append(steps, st)],
                          LAMBDA n : DivLoop(d, divisor, i - 1, st.post, n.q, n.s)))

\* std::reverse
Reverse(s) == [i \in 1..Len(s) |-> s[Len(s) + 1 - i]]

\* the long division of operator/= (lines 127-144): quotient and
\* current_dividend both start as BigInt() = 0
LongDivision(x, divisor) ==
    With(DivLoop(x, divisor, Len(x) - 1, FromNative(0), FromNative(0), <<>>),
         LAMBDA r : [val |-> remove_leading_zeros(Reverse(r.quot)),
                     raw |-> r.quot, steps |-> r.steps, ok |-> r.ok])

\* the guard of operator/=: if (divisor.is_zero()) throw runtime_error
DivGuard(divisor) == is_zero(divisor)

\* BigInt& operator/=(const BigInt& divisor)
\* err "cut": a loop was cut off by LoopFuel (the call has not returned)
DivAssign(x, divisor) ==
    IF DivGuard(divisor)
    THEN [err |-> "DivisionByZero", val |-> x, steps |-> <<>>, raw |-> <<>>]
    ELSE IF Less(x, divisor)
    THEN [err |-> "none", val |-> FromNative(0), steps |-> <<>>, raw |-> <<>>]
    ELSE IF Equal(x, divisor)
    THEN [err |-> "none", val |-> FromNative(1), steps |-> <<>>, raw |-> <<>>]
    ELSE With(LongDivision(x, divisor),
              LAMBDA r : [err |-> IF r.ok THEN "none" ELSE "cut",
                          val |-> r.val, steps |-> r.steps, raw |-> r.raw])

-----------------------------------------------------------------------------
(* The binary operators: the left operand is passed by value (a copy), the *)
(* compound assignment is applied to the copy, the copy is returned.       *)

Plus(x, y) == [err |-> "none", val |-> AddAssign(x, y)]
Minus(x, y) ==
    With(SubAssign(x, y),
         LAMBDA r : [err |-> r.err,
                     val |-> IF r.err = "none" THEN r.val ELSE <<>>])
Times(x, y) == [err |-> "none", val |-> MulAssign(x, y)]
Divide(x, y) ==
    With(DivAssign(x, y),
         LAMBDA r : [err |-> r.err,
                     val |-> IF r.err = "none" THEN r.val ELSE <<>>])

\* BigInt operator%(const BigInt& divisor) const: a throwing call yields
\* no value
Modulo(x, divisor) ==
    IF is_zero(divisor) THEN [err |-> "DivisionByZero", val |-> <<>>]
    ELSE With(Divide(x, divisor),
              LAMBDA quotient :
                IF quotient.err # "none" THEN [err |-> quotient.err, val |-> <<>>]
                ELSE With(MulAssign(quotient.val, divisor),
                          LAMBDA t : Minus(x, t)))

-----------------------------------------------------------------------------
(* pow                                                                     *)

\* ++counter.  The class declares no operator++; the increment by one that
\* the loop of pow needs is taken to be counter += BigInt(1).
PreInc(counter) == AddAssign(counter, FromNative(1))

\* the body of the loop: result *= *this; ++counter;  n counts the rounds
PowBody(base, w) ==
    [result |-> MulAssign(w.result, base), counter |-> PreInc(w.counter),
     n |-> w.n + 1]

\* while (counter < exponent) { ... }, followed for at most fuel rounds
RECURSIVE PowLoop(_, _, _, _)
PowLoop(base, exponent, w, fuel) ==
    IF ~Less(w.counter, exponent)
    THEN [err |-> "none", val |-> w.result, n |-> w.n]
    ELSE IF fuel = 0 THEN [err |-> "cut", val |-> w.result, n |-> w.n]
    ELSE With(PowBody(base, w),
              LAMBDA w1 : PowLoop(base, exponent, w1, fuel - 1))

\* BigInt pow(const BigInt& exponent) const
Pow(x, exponent) ==
    IF is_zero(exponent) THEN [err |-> "none", val |-> FromNative(1), n |-> 0]
    ELSE PowLoop(x, exponent,
                 [result |-> FromNative(1), counter |-> FromNative(0), n |-> 0],
                 MaxPowIter)

-----------------------------------------------------------------------------
(* sqrt                                                                    *)

\* The loop  while (low <= high) { ... }  over the record w of its
\* variables: err is "none" while it runs normally, ret is TRUE once
\* `return mid` was taken, n counts the rounds.
SqrtDone(w) == w.ret \/ w.err # "none" \/ ~LessEq(w.low, w.high)

\* the rest of the body once mid and mid_sq are known
SqrtBranch(x, w, mid, mid_sq) ==
    IF Equal(mid_sq, x) THEN [w EXCEPT !.ret = TRUE, !.result = mid]
    ELSE IF Less(mid_sq, x)
    THEN [w EXCEPT !.low = Plus(mid, FromNative(1)).val, !.result = mid]
    ELSE With(Minus(mid, FromNative(1)),
              LAMBDA h : IF h.err # "none" THEN [w EXCEPT !.err = h.err]
                         ELSE [w EXCEPT !.high = h.val])

\* BigInt mid = (low + high) / BigInt(2); BigInt mid_sq = mid * mid; ...
SqrtBody(x, w) ==
    With(AddAssign(w.low, w.high),
         LAMBDA sum :
           With(Divide(sum, FromNative(2)),
                LAMBDA q :
                  IF q.err # "none" THEN [w EXCEPT !.err = q.err, !.n = @ + 1]
                  ELSE With(MulAssign(q.val, q.val),
                            LAMBDA mid_sq :
                              SqrtBranch(x, [w EXCEPT !.n = @ + 1], q.val, mid_sq))))

\* at most k rounds of the loop (split in halves to keep the nesting flat)
RECURSIVE SqrtRun(_, _, _)
SqrtRun(x, w, k) ==
    IF k = 0 \/ SqrtDone(w) THEN w
    ELSE IF k = 1 THEN SqrtBody(x, w)
    ELSE With(SqrtRun(x, w, k \div 2),
              LAMBDA h : SqrtRun(x, h, k - (k \div 2)))

SqrtLoop(x, fuel) ==
    With(SqrtRun(x, [low |-> FromNative(1), high |-> x,
                     result |-> FromNative(0), n |-> 0,
                     err |-> "none", ret |-> FALSE], fuel),
         LAMBDA w : [err |-> IF SqrtDone(w) THEN w.err ELSE "cut",
                     val |-> w.result, n |-> w.n])

\* BigInt sqrt() const
Sqrt(x) ==
    IF Less(x, FromNative(0))
    THEN [err |-> "InvalidArgument", val |-> <<>>, n |-> 0]
    ELSE IF is_zero(x) \/ Equal(x, FromNative(1))
    THEN [err |-> "none", val |-> x, n |-> 0]
    ELSE SqrtLoop(x, LoopFuel)

-----------------------------------------------------------------------------
(* The state machine: two objects are constructed, compound assignments    *)
(* are applied to a with b as the argument, and one value-returning        *)
(* operation or expression is evaluated on them.                           *)

NoOut == [val |-> <<>>, aux |-> <<>>, txt |-> <<>>, buf |-> <<>>,
          steps |-> <<>>, raw |-> <<>>, n |-> 0, flag |-> FALSE]

Init ==
    /\ charSigned \in BOOLEAN
    /\ a = <<>>
    /\ b = <<>>
    /\ src = NoText
    /\ nops = 0
    /\ pc = "run"
    /\ op = "none"
    /\ err = "none"
    /\ a0 = <<>>
    /\ out = NoOut

Ready == pc = "run" /\ a # <<>> /\ b # <<>>

\* BigInt a(n);
NewNativeA ==
    /\ pc = "run" /\ a = <<>>
    /\ \E n \in 0..MaxNative :
         /\ a' = FromNative(n)
         /\ src' = NoText
    /\ op' = "BigInt(n)" /\ err' = "none" /\ out' = NoOut
    /\ UNCHANGED <<charSigned, b, nops, pc, a0>>

\* BigInt a(s);  a throwing constructor leaves no object behind
NewStringA ==
    /\ pc = "run" /\ a = <<>>
    /\ \E s \in Texts : \E r \in {FromString(s)} :
         /\ a' = r.val
         /\ err' = r.err
         /\ src' = IF r.err = "none" THEN s ELSE NoText
    /\ op' = "BigInt(s)" /\ out' = NoOut
    /\ UNCHANGED <<charSigned, b, nops, pc, a0>>

\* BigInt b(n);
NewNativeB ==
    /\ pc = "run" /\ b = <<>>
    /\ \E n \in 0..MaxNative : b' = FromNative(n)
    /\ op' = "BigInt(n)" /\ err' = "none" /\ out' = NoOut
    /\ UNCHANGED <<charSigned, a, src, nops, pc, a0>>

\* BigInt b(s);
NewStringB ==
    /\ pc = "run" /\ b = <<>>
    /\ \E s \in Texts : \E r \in {FromString(s)} :
         /\ b' = r.val
         /\ err' = r.err
    /\ op' = "BigInt(s)" /\ out' = NoOut
    /\ UNCHANGED <<charSigned, a, src, nops, pc, a0>>

\* the bookkeeping of a compound assignment a op= b that ended with e and
\* left v in a; a call cut off by the model's fuel is not followed
Assigned(name, e, v, o) ==
    /\ e # "cut"
    /\ a' = v
    /\ a0' = a
    /\ src' = NoText
    /\ nops' = nops + 1
    /\ op' = name
    /\ err' = e
    /\ out' = o
    /\ UNCHANGED <<charSigned, b, pc>>

\* a += b;
DoAddAssign ==
    /\ Ready /\ nops < MaxOps
    /\ \E v \in {AddAssign(a, b)} : Assigned("+=", "none", v, NoOut)

\* a -= b;
DoSubAssign ==
    /\ Ready /\ nops < MaxOps
    /\ \E r \in {SubAssign(a, b)} : Assigned("-=", r.err, r.val, NoOut)

\* a *= b;
DoMulAssign ==
    /\ Ready /\ nops < MaxOps
    /\ \E r \in {MulBuffer(a, b)} :
         \E v \in {IF is_zero(a) \/ is_zero(b) THEN FromNative(0) ELSE MulStore(r)} :
           Assigned("*=", "none", v, [NoOut EXCEPT !.buf = r])

\* a /= b;
DoDivAssign ==
    /\ Ready /\ nops < MaxOps
    /\ \E r \in {DivAssign(a, b)} :
         Assigned("/=", r.err, r.val, [NoOut EXCEPT !.steps = r.steps, !.raw = r.raw])

\* the bookkeeping of a value-returning operation on a and b
Observed(name, e, o) ==
    /\ e # "cut"
    /\ pc' = "done"
    /\ a0' = a
    /\ op' = name
    /\ err' = e
    /\ out' = o
    /\ UNCHANGED <<charSigned, a, b, src, nops>>

\* a / b
DoDivide ==
    /\ Ready
    /\ \E r \in {Divide(a, b)} : Observed("/", r.err, [NoOut EXCEPT !.val = r.val])

\* a % b
DoModulo ==
    /\ Ready
    /\ \E r \in {Modulo(a, b)} : Observed("%", r.err, [NoOut EXCEPT !.val = r.val])

\* a.pow(b)
DoPow ==
    /\ Ready /\ Len(a) <= MaxArgLen
    /\ \E r \in {Pow(a, b)} :
         Observed("pow", r.err, [NoOut EXCEPT !.val = r.val, !.n = r.n])

\* a.sqrt()
DoSqrt ==
    /\ Ready /\ Len(a) <= MaxArgLen
    /\ \E r \in {Sqrt(a)} :
         Observed("sqrt", r.err, [NoOut EXCEPT !.val = r.val, !.n = r.n])

\* os << a
DoOutput ==
    /\ Ready
    /\ Observed("<<", "none", [NoOut EXCEPT !.txt = Render(a)])

\* a.is_zero()
DoIsZero ==
    /\ Ready
    /\ Observed("is_zero", "none", [NoOut EXCEPT !.flag = is_zero(a)])

\* (a + b) - b
AddThenSub(x, y) == With(AddAssign(x, y), LAMBDA t : Minus(t, y))

DoAddThenSub ==
    /\ Ready
    /\ \E r \in {AddThenSub(a, b)} :
         Observed("(a+b)-b", r.err, [NoOut EXCEPT !.val = r.val])

\* (a / b) * b + (a % b): val is the sum, aux is a % b; the first call that
\* throws ends the evaluation
DivRem(x, y) ==
    With(Divide(x, y),
         LAMBDA q :
           IF q.err # "none" THEN [err |-> q.err, val |-> <<>>, aux |-> <<>>]
           ELSE With(Modulo(x, y),
                     LAMBDA m :
                       IF m.err # "none"
                       THEN [err |-> m.err, val |-> <<>>, aux |-> <<>>]
                       ELSE With(MulAssign(q.val, y),
                                 LAMBDA t : [err |-> "none",
                                             val |-> AddAssign(t, m.val),
                                             aux |-> m.val])))

DoDivRem ==
    /\ Ready
    /\ \E r \in {DivRem(a, b)} :
         Observed("divrem", r.err, [NoOut EXCEPT !.val = r.val, !.aux = r.aux])

Next ==
    \/ NewNativeA \/ NewStringA \/ NewNativeB \/ NewStringB
    \/ DoAddAssign \/ DoSubAssign \/ DoMulAssign \/ DoDivAssign
    \/ DoDivide \/ DoModulo \/ DoPow \/ DoSqrt
    \/ DoOutput \/ DoIsZero \/ DoAddThenSub \/ DoDivRem

Spec == Init /\ [][Next]_vars

\* construction and the four compound assignments alone
NextAssign ==
    \/ NewNativeA \/ NewStringA \/ NewNativeB \/ NewStringB
    \/ DoAddAssign \/ DoSubAssign \/ DoMulAssign \/ DoDivAssign

SpecAssign == Init /\ [][NextAssign]_vars

-----------------------------------------------------------------------------
(* The vocabulary of the properties: the mathematics the digit sequences   *)
(* stand for.                                                              *)

\* at least one digit, every digit in 0..9, no zero on top of another digit
Canonical(d) ==
    /\ Len(d) >= 1
    /\ \A i \in 1..Len(d) : d[i] \in 0..9
    /\ Len(d) > 1 => d[Len(d)] # 0

\* the number the elements from position i on stand for
RECURSIVE ValueFrom(_, _)
ValueFrom(d, i) == IF i > Len(d) THEN 0 ELSE d[i] + 10 * ValueFrom(d, i + 1)

Value(d) == ValueFrom(d, 1)

\* the canonical digits of a natural number
RECURSIVE Digits(_)
Digits(n) == IF n < 10 THEN <<n>> ELSE <<n % 10>> \o Digits(n \div 10)

\* the product of the two values has at most 9 digits (it is below 2^31)
ProductFits(x, y) == Len(x) + Len(y) <= 9

\* a text made of '0' characters only (the empty text included)
AllZeros(s) == \A i \in 1..Len(s) : s[i] = ZeroChar

\* a text of decimal digits without a leading zero, or the text "0"
PlainDecimal(s) ==
    /\ Len(s) >= 1
    /\ \A i \in 1..Len(s) : isdigit(s[i])
    /\ Len(s) > 1 => s[1] # ZeroChar

\* d is how the program represents zero: BigInt(0), or parsed from an
\* all-zero text
ZeroObject(d) ==
    \/ d = FromNative(0)
    \/ \E s \in Texts : AllZeros(s) /\ d = FromString(s).val

-----------------------------------------------------------------------------
(* The properties.                                                         *)

\* C1: every constructed object, after its construction and after every
\* compound assignment, holds a non-empty digit sequence whose elements are
\* all in 0..9 and whose top element is non-zero unless it is the single 0.
C1_CanonicalForm ==
    /\ a # <<>> => Canonical(a)
    /\ b # <<>> => Canonical(b)

\* C2: printing an object parsed from a plain decimal text (no leading
\* zeros, or "0") gives that text back; an object parsed from an all-zero
\* text is reported zero by is_zero() and prints as "0".
C2_RoundTrip ==
    /\ (op = "<<" /\ src # NoText /\ PlainDecimal(src)) => out.txt = src
    /\ (op = "<<" /\ src # NoText /\ AllZeros(src)) => out.txt = <<ZeroChar>>
    /\ (op = "is_zero" /\ src # NoText /\ AllZeros(src)) => out.flag

\* C3: a /= z, a / z and a % z with z representing zero end with
\* DivisionByZero, return nothing and leave a as it was.
C3_DivisionByZero ==
    (op \in {"/=", "/", "%"} /\ ZeroObject(b)) =>
        /\ err = "DivisionByZero"
        /\ a = a0
        /\ out.val = <<>>

\* C4: for canonical a and b, a -= b ends with Underflow exactly when the
\* value of a is below the value of b, and then a is left as it was; when
\* the value of a is at least the value of b the call does not fail.
C4_Underflow ==
    (op = "-=" /\ Canonical(a0) /\ Canonical(b)) =>
        /\ err = "Underflow" <=> Value(a0) < Value(b)
        /\ err = "Underflow" => a = a0
        /\ err # "Underflow" => err = "none"

\* a -= b failed on canonical operands of the same length
C4_Witness ==
    /\ op = "-=" /\ Canonical(a0) /\ Canonical(b)
    /\ err = "Underflow" /\ Len(a0) = Len(b) /\ Len(b) >= 2 /\ a = a0

\* C5: for every a and every b that does not represent zero,
\* (a / b) * b + (a % b) is a, a % b is below b, and no call throws.
C5_DivisionRemainder ==
    (op = "divrem" /\ ~ZeroObject(b)) =>
        /\ err = "none"
        /\ out.val = a
        /\ Less(out.aux, b)

\* C6: sqrt(a) returns r with r*r <= a < (r+1)*(r+1) without throwing, and
\* returns a itself when a represents zero or is one.
C6_SquareRoot ==
    op = "sqrt" =>
        /\ err = "none"
        /\ (ZeroObject(a) \/ a = FromNative(1)) => out.val = a
        /\ ~ZeroObject(a) =>
             /\ Value(out.val) * Value(out.val) <= Value(a)
             /\ Value(a) < (Value(out.val) + 1) * (Value(out.val) + 1)

\* C7: (a + b) - b does not throw and is a, digit for digit.
C7_AddSubInverse ==
    op = "(a+b)-b" => (err = "none" /\ out.val = a)

\* C8: for canonical a and b, a *= b leaves the canonical digits of the
\* product of the two values in a, and when the buffer is used it has
\* len(a) + len(b) positions that all hold a digit in 0..9 after the loops.
C8_Multiplication ==
    (op = "*=" /\ Canonical(a0) /\ Canonical(b) /\ ProductFits(a0, b)) =>
        /\ err = "none"
        /\ a = Digits(Value(a0) * Value(b))
        /\ (Value(a0) # 0 /\ Value(b) # 0) => Len(out.buf) = Len(a0) + Len(b)
        /\ \A k \in 1..Len(out.buf) : out.buf[k] \in 0..9

\* a *= b on canonical operands of two digits and more, with a carry in the
\* topmost position of the buffer
C8_Witness ==
    /\ op = "*=" /\ Canonical(a0) /\ Canonical(b) /\ ProductFits(a0, b)
    /\ Len(a0) >= 2 /\ Len(b) >= 2
    /\ Len(out.buf) = Len(a0) + Len(b)
    /\ out.buf[Len(out.buf)] # 0
    /\ a = Digits(Value(a0) * Value(b))

\* C9: pow(a, e) performs as many multiplications as the value of e and
\* returns a to that power; for e representing zero that is no
\* multiplication and the result one.
C9_Power ==
    op = "pow" =>
        /\ err = "none"
        /\ ZeroObject(b) => (out.n = 0 /\ out.val = FromNative(1))
        /\ ~ZeroObject(b) => out.n = Value(b)

\* C10: in the long division of a /= b, at every scanned position the
\* running remainder is canonical once the digit is put in front, the
\* subtraction loop runs at most 9 times and never throws, the remainder it
\* leaves is below the divisor, and the placeholder digit of the quotient
\* adds no digit to the result.
C10_LongDivisionStep ==
    (op = "/=" /\ out.steps # <<>>) =>
        /\ \A k \in 1..Len(out.steps) :
             /\ Canonical(out.steps[k].pre)
             /\ out.steps[k].count \in 0..9
             /\ ~out.steps[k].underflow
             /\ Less(out.steps[k].post, b)
        /\ Len(a) <= Len(out.steps)

====
